---- MODULE Spec2Model ----
(***************************************************************************)
(* Fluid-OS: the blueprint interpreter and its local mutation engine.      *)
(*                                                                         *)
(* The module models the App component of src/unnamed/part_001 (the        *)
(* archetype engine: apps list, timer heartbeat, handleAppAction with its  *)
(* self-healing key resolution) and the App component of                   *)
(* src/unnamed/part_002 (the universal-schema engine: executeTool with     *)
(* "$INPUT:" placeholders, transformToBlocks).                             *)
(*                                                                         *)
(* JavaScript values are modelled as tagged records; objects that the code *)
(* shares by reference (checklist items) live in a heap and are addressed  *)
(* by reference, so that in-place mutation of a shared object is visible.  *)
(***************************************************************************)
EXTENDS Integers, Sequences, FiniteSets, TLC

(***************************************************************************)
(* Bounds of the model.                                                    *)
(***************************************************************************)
\* number of user actions dispatched in one behaviour
MaxSteps == 3
\* number of heartbeat firings followed after one user action
MaxTicks == 11

(***************************************************************************)
(* JavaScript values.  t is the tag: "num" (a finite number), "nan" (NaN,  *)
(* typeof 'number'), "bool", "str", "list" (an array of item references),  *)
(* "null", "undef" (undefined).  Unused fields hold a fixed filler so that  *)
(* values compare.                                                         *)
(***************************************************************************)
Num(n)  == [t |-> "num",  n |-> n, b |-> FALSE, s |-> "", l |-> <<>>]
NaN     == [t |-> "nan",  n |-> 0, b |-> FALSE, s |-> "", l |-> <<>>]
Bool(b) == [t |-> "bool", n |-> 0, b |-> b,     s |-> "", l |-> <<>>]
Str(s)  == [t |-> "str",  n |-> 0, b |-> FALSE, s |-> s,  l |-> <<>>]
List(l) == [t |-> "list", n |-> 0, b |-> FALSE, s |-> "", l |-> l]
Null    == [t |-> "null", n |-> 0, b |-> FALSE, s |-> "", l |-> <<>>]
Undef   == [t |-> "undef", n |-> 0, b |-> FALSE, s |-> "", l |-> <<>>]

\* a property that is absent from a payload or an item (JavaScript undefined)
NoStr == "<undefined>"

\* typeof v === 'number'
IsNumber(v) == v.t \in {"num", "nan"}
\* typeof v === 'boolean'
IsBoolean(v) == v.t = "bool"
\* Array.isArray(v)
IsArray(v) == v.t = "list"

\* JavaScript truthiness of a value
Truthy(v) ==
  CASE v.t = "num"  -> v.n # 0
    [] v.t = "nan"  -> FALSE
    [] v.t = "bool" -> v.b
    [] v.t = "str"  -> v.s # ""
    [] v.t = "list" -> TRUE
    [] OTHER        -> FALSE

\* the strings of the model that parse as numbers, with their values
NumericStrings == {"", "  ", "7"}
ParseNum(s) == IF s = "7" THEN 7 ELSE 0

\* Number(v): the numeric coercion used by INCREMENT_COUNT
ToNumber(v) ==
  CASE v.t = "num"  -> v
    [] v.t = "nan"  -> NaN
    [] v.t = "bool" -> Num(IF v.b THEN 1 ELSE 0)
    [] v.t = "str"  -> IF v.s \in NumericStrings THEN Num(ParseNum(v.s)) ELSE NaN
    [] v.t = "list" -> IF v.l = <<>> THEN Num(0) ELSE NaN
    [] v.t = "null" -> Num(0)
    [] OTHER        -> NaN

\* a + b on numbers
NumAdd(a, n) == IF a.t = "nan" THEN NaN ELSE Num(a.n + n)

(***************************************************************************)
(* Data bags: plain objects, as the sequence of their own entries in       *)
(* Object.keys order (insertion order; the keys of the model are not       *)
(* array indices).                                                         *)
(***************************************************************************)
HasKey(d, k) == \E i \in DOMAIN d : d[i].k = k
IndexOf(d, k) == CHOOSE i \in DOMAIN d : d[i].k = k
\* d[k], for a key that is present
Get(d, k) == d[IndexOf(d, k)].v
\* d[k] = v: an existing key keeps its place, a new key is appended
Put(d, k, v) ==
  IF HasKey(d, k) THEN [d EXCEPT ![IndexOf(d, k)].v = v]
  ELSE Append(d, [k |-> k, v |-> v])
KeysOf(d) == {d[i].k : i \in DOMAIN d}

SetMin(S) == CHOOSE x \in S : \A y \in S : x <= y

(***************************************************************************)
(* Checklist items are objects shared by reference: the heap is the        *)
(* sequence of the item objects allocated so far and a reference is an     *)
(* index into it.  An item is {label, checked, id}.                        *)
(***************************************************************************)
Item(label, checked, id) == [label |-> label, checked |-> checked, id |-> id]

\* the list held by a list value, with every reference replaced by its object
DeepList(l, hp) == [j \in DOMAIN l |-> hp[l[j]]]
\* a data bag with every item reference replaced by the object it points to
Deep(d, hp) ==
  [i \in DOMAIN d |->
     [k |-> d[i].k,
      v |-> IF IsArray(d[i].v) THEN [t |-> "deeplist", items |-> DeepList(d[i].v.l, hp)]
            ELSE [t |-> "scalar", val |-> d[i].v]]]

(***************************************************************************)
(* Action invocations: (actionType, payload).  A payload property that is  *)
(* absent is NoStr for key and value, and has its has-flag off for the     *)
(* numeric properties amount, index and initialValue.                      *)
(***************************************************************************)
Payload(key, hasAmount, amount, value, hasIndex, index, hasInit, initialValue) ==
  [key |-> key, hasAmount |-> hasAmount, amount |-> amount, value |-> value,
   hasIndex |-> hasIndex, index |-> index,
   hasInit |-> hasInit, initialValue |-> initialValue]
EmptyPayload == Payload(NoStr, FALSE, 0, NoStr, FALSE, 0, FALSE, 0)

\* payload.key || dflt
KeyOr(payload, dflt) ==
  IF payload.key = NoStr \/ payload.key = "" THEN dflt ELSE payload.key
\* payload.amount || 1
AmountOr1(payload) ==
  IF payload.hasAmount /\ payload.amount # 0 THEN payload.amount ELSE 1
\* payload.initialValue || 0
InitialValueOr0(payload) == IF payload.hasInit THEN payload.initialValue ELSE 0
\* payload.value || "New Item"
ValueOrNewItem(payload) ==
  IF payload.value = NoStr \/ payload.value = "" THEN "New Item" ELSE payload.value

(***************************************************************************)
(* findBestKey (part_001:137-151).                                         *)
(***************************************************************************)
TypeMatches(v, type) ==
  CASE type = "array"   -> IsArray(v)
    [] type = "number"  -> IsNumber(v)
    [] type = "boolean" -> IsBoolean(v)
    [] OTHER            -> FALSE

\* findBestKey without its second step, the search for a key of the type
FindBestKeyNoFallback(newData, requestedKey, type) == requestedKey

FindBestKey(newData, requestedKey, type) ==
  IF HasKey(newData, requestedKey) THEN requestedKey
  ELSE LET m == {i \in DOMAIN newData : TypeMatches(newData[i].v, type)}
       IN  IF m = {} THEN requestedKey
           ELSE LET fallback == newData[SetMin(m)].k
                IN  IF fallback = "" THEN requestedKey ELSE fallback

(***************************************************************************)
(* The body of the setApps updater of handleAppAction for the active app   *)
(* (part_001:133-223): from the app's data, the heap and the clock to the  *)
(* new data and the new heap.                                              *)
(***************************************************************************)
\* splice taking the index as a position counted from 1
Splice1FromOne(l, hasIndex, index) ==
  LET valid == hasIndex /\ index >= 1 /\ index <= Len(l)
  IN  [j \in 1..(IF valid THEN Len(l) - 1 ELSE Len(l)) |->
         IF valid /\ j >= index THEN l[j + 1] ELSE l[j]]

\* Array.prototype.splice(index, 1) on a copy of l
Splice1(l, hasIndex, index) ==
  LET len   == Len(l)
      rel   == IF hasIndex THEN index ELSE 0
      start == IF rel < 0 THEN (IF len + rel < 0 THEN 0 ELSE len + rel)
               ELSE (IF rel > len THEN len ELSE rel)
  IN  [j \in 1..(IF start < len THEN len - 1 ELSE len) |->
         IF j <= start THEN l[j] ELSE l[j + 1]]

\* list[payload.index] is an item (a truthy value)
ItemAt(l, payload) ==
  payload.hasIndex /\ payload.index >= 0 /\ payload.index < Len(l)

IncrementCount(newData, hp, payload) ==
  LET key == FindBestKey(newData, KeyOr(payload, "count"), "number")
      d1  == IF HasKey(newData, key) THEN newData ELSE Put(newData, key, Num(0))
  IN  [data |-> Put(d1, key, NumAdd(ToNumber(Get(d1, key)), AmountOr1(payload))),
       heap |-> hp]

\* START_TIMER without its second assignment
StartTimerKeepingFinished(newData, hp) ==
  [data |-> Put(newData, "is_running", Bool(TRUE)), heap |-> hp]

StartTimer(newData, hp) ==
  [data |-> Put(Put(newData, "is_running", Bool(TRUE)), "finished", Bool(FALSE)),
   heap |-> hp]

StopTimer(newData, hp) ==
  [data |-> Put(newData, "is_running", Bool(FALSE)), heap |-> hp]

ResetTimer(newData, hp, payload) ==
  LET d1  == Put(Put(newData, "is_running", Bool(FALSE)), "finished", Bool(FALSE))
      key == FindBestKey(d1, KeyOr(payload, "time_remaining"), "number")
  IN  [data |-> IF key # "" THEN Put(d1, key, Num(InitialValueOr0(payload))) ELSE d1,
       heap |-> hp]

AddChecklistItem(newData, hp, clock, payload) ==
  LET key == FindBestKey(newData, KeyOr(payload, "items"), "array")
      d1  == IF HasKey(newData, key) /\ IsArray(Get(newData, key)) THEN newData
             ELSE Put(newData, key, List(<<>>))
      ref == Len(hp) + 1
  IN  [data |-> Put(d1, key, List(Append(Get(d1, key).l, ref))),
       heap |-> Append(hp, Item(ValueOrNewItem(payload), FALSE, clock))]

ToggleChecklistItem(newData, hp, payload) ==
  LET key == FindBestKey(newData, KeyOr(payload, "items"), "array")
  IN  IF HasKey(newData, key) /\ IsArray(Get(newData, key))
         /\ ItemAt(Get(newData, key).l, payload)
      THEN LET ref == Get(newData, key).l[payload.index + 1]
           IN  [data |-> newData,
                heap |-> [hp EXCEPT ![ref].checked = ~hp[ref].checked]]
      ELSE [data |-> newData, heap |-> hp]

DeleteChecklistItem(newData, hp, payload) ==
  LET key == FindBestKey(newData, KeyOr(payload, "items"), "array")
  IN  IF HasKey(newData, key) /\ IsArray(Get(newData, key))
      THEN [data |-> Put(newData, key,
                         List(Splice1(Get(newData, key).l, payload.hasIndex, payload.index))),
            heap |-> hp]
      ELSE [data |-> newData, heap |-> hp]

EditChecklistItem(newData, hp, payload) ==
  LET key == FindBestKey(newData, KeyOr(payload, "items"), "array")
  IN  IF HasKey(newData, key) /\ IsArray(Get(newData, key))
         /\ ItemAt(Get(newData, key).l, payload)
      THEN LET ref == Get(newData, key).l[payload.index + 1]
           IN  [data |-> newData,
                heap |-> [hp EXCEPT ![ref].label = payload.value]]
      ELSE [data |-> newData, heap |-> hp]

ApplyAction(newData, hp, clock, actionType, payload) ==
  CASE actionType = "INCREMENT_COUNT"       -> IncrementCount(newData, hp, payload)
    [] actionType = "START_TIMER"           -> StartTimer(newData, hp)
    [] actionType = "STOP_TIMER"            -> StopTimer(newData, hp)
    [] actionType = "RESET_TIMER"           -> ResetTimer(newData, hp, payload)
    [] actionType = "ADD_CHECKLIST_ITEM"    -> AddChecklistItem(newData, hp, clock, payload)
    [] actionType = "TOGGLE_CHECKLIST_ITEM" -> ToggleChecklistItem(newData, hp, payload)
    [] actionType = "DELETE_CHECKLIST_ITEM" -> DeleteChecklistItem(newData, hp, payload)
    [] actionType = "EDIT_CHECKLIST_ITEM"   -> EditChecklistItem(newData, hp, payload)
    [] OTHER                                -> [data |-> newData, heap |-> hp]

(***************************************************************************)
(* State of the App component of part_001.                                 *)
(*   apps         the apps list (useState, part_001:75), each app          *)
(*                [id, title, archetype, blueprint, data]                  *)
(*   activeAppId  the selected app, 0 for null (part_001:78)               *)
(*   heap         the item objects allocated so far                        *)
(*   now          the reading of Date.now()                                *)
(*   steps        number of user actions dispatched so far                 *)
(*   ticks        heartbeat firings since the last user action             *)
(*   last         the last action invocation, with the data bag the        *)
(*                updater was given (prevData, by reference) and what that *)
(*                bag held at that moment (prevDeep), and the invocation   *)
(*                before it                                                *)
(***************************************************************************)
VARIABLES apps, activeAppId, heap, now, steps, ticks, last

(***************************************************************************)
(* State of the App component of part_002 (the universal-schema engine).   *)
(*   uApp       the active app: [active, layout, data], data being         *)
(*              universalSchema.data and layout universalSchema.view.layout*)
(*   formState  the text typed into each declared input, NoStr when unset  *)
(*              (useState, part_002:139)                                   *)
(*   lastTool   the last tool invocation, with the data and the form state *)
(*              it found                                                   *)
(***************************************************************************)
VARIABLES uApp, formState, lastTool

(***************************************************************************)
(* State around the engine of part_001.                                    *)
(*   fault    the error that escaped the setApps updater of                *)
(*            handleAppAction: [op, raised], raised being "" while none    *)
(*            has, else the name of the error; the React tree is unmounted *)
(*            once an error has escaped                                    *)
(*   pending  the handleSend calls awaiting their response: for each, the  *)
(*            activeAppId its closure captured (0 for null)                *)
(***************************************************************************)
VARIABLES fault, pending

(***************************************************************************)
(* State of the renderers.                                                 *)
(*   nodes         the blueprint node objects allocated so far             *)
(*                 (part_004): the caller's tree, then the renderer's copy *)
(*   blueprintRef  the root of the tree the caller passes to A2UIRenderer  *)
(*                 of part_004, 0 for none                                 *)
(*   cleanRef      the root of cleanData, the renderer's normalized copy,  *)
(*                 0 before the first render                               *)
(*   given         the caller's node objects as they were when passed in   *)
(*   screen        what A2UIRenderer of part_003 was given and returned:   *)
(*                 [shown, blueprint, data, threw, out]                    *)
(***************************************************************************)
VARIABLES nodes, blueprintRef, cleanRef, given, screen

(***************************************************************************)
(* State of the App component of src/src/App.js (the block-list engine,    *)
(* in which every button press is a request to the LLM); it shares apps,   *)
(* activeAppId and now with the above, an app being [id, title, blueprint]. *)
(*   messages        the chat (useState, App.js:59), each message          *)
(*                   [role, text]; the greeting is not held                *)
(*   loading         the loading flag (App.js:64)                          *)
(*   rateLimitTimer  the cooldown counter in seconds (App.js:65)           *)
(*   awaiting        the handleSend calls awaiting chat.sendMessage: for   *)
(*                   each, what its closure captured, [activeAppId,        *)
(*                   hasActiveApp, isSystemAction]                         *)
(*   calls           number of handleSend and handleAppAction calls made   *)
(*   requests        number of chat.sendMessage requests issued            *)
(*   reply           the last responseText received, how many were, and   *)
(*                   whether the app its call had captured was gone        *)
(***************************************************************************)
VARIABLES messages, loading, rateLimitTimer, awaiting, calls, requests, reply

engineVars == <<apps, activeAppId, heap, now, ticks, last>>
toolVars == <<uApp, formState, lastTool>>
sessionVars == <<fault, pending>>
rendererVars == <<nodes, blueprintRef, cleanRef, given, screen>>
chatVars == <<messages, loading, rateLimitTimer, awaiting, calls, requests, reply>>
vars ==
  <<apps, activeAppId, heap, now, steps, ticks, last, uApp, formState, lastTool,
    fault, pending, nodes, blueprintRef, cleanRef, given, screen,
    messages, loading, rateLimitTimer, awaiting, calls, requests, reply>>

NoReply == [n |-> 0, text |-> <<>>, late |-> FALSE]

NoFault == [op |-> "none", raised |-> ""]
NoScreen ==
  [shown |-> FALSE, blueprint |-> <<>>, data |-> <<>>, threw |-> FALSE, out |-> <<>>]

NoInvocation == [op |-> "none", payload |-> EmptyPayload]
NoLast ==
  [op |-> "none", payload |-> EmptyPayload, prevData |-> <<>>, prevDeep |-> <<>>,
   before |-> NoInvocation]

\* the initial_state objects an LLM response may deliver: a data bag and the
\* item objects its lists refer to (references count from 1)
InitialStates ==
  { [data |-> <<>>, heap |-> <<>>],
    [data |-> << [k |-> "count", v |-> Num(5)] >>, heap |-> <<>>],
    [data |-> << [k |-> "items", v |-> List(<<>>)] >>, heap |-> <<>>],
    [data |-> << [k |-> "is_active", v |-> Bool(FALSE)] >>, heap |-> <<>>],
    [data |-> << [k |-> "title", v |-> Str("Beach")],
                 [k |-> "packing_list", v |-> List(<<1, 2>>)] >>,
     heap |-> << Item("Towel", FALSE, 0), Item("Hat", TRUE, 0) >>],
    [data |-> << [k |-> "items", v |-> List(<<1>>)],
                 [k |-> "score", v |-> Num(2)] >>,
     heap |-> << Item("Towel", FALSE, 0) >>] }

\* the references of a bag moved past the objects already in the heap
Relocate(d, off) ==
  [i \in DOMAIN d |->
     [k |-> d[i].k,
      v |-> IF IsArray(d[i].v) THEN List([j \in DOMAIN d[i].v.l |-> d[i].v.l[j] + off])
            ELSE d[i].v]]

Archetypes == {"Accumulator", "Regulator", "Checklist", "Drafter"}

(***************************************************************************)
(* The action invocations of the model.                                    *)
(***************************************************************************)
KeyP(key)              == Payload(key, FALSE, 0, NoStr, FALSE, 0, FALSE, 0)
AmountP(key, amount)   == Payload(key, TRUE, amount, NoStr, FALSE, 0, FALSE, 0)
InitP(key, init)       == Payload(key, FALSE, 0, NoStr, FALSE, 0, TRUE, init)
ValueP(key, value)     == Payload(key, FALSE, 0, value, FALSE, 0, FALSE, 0)
IndexP(key, index)     == Payload(key, FALSE, 0, NoStr, TRUE, index, FALSE, 0)
EditP(key, index, val) == Payload(key, FALSE, 0, val, TRUE, index, FALSE, 0)

Indexes == {-1, 0, 1, 2}

Payloads(actionType) ==
  CASE actionType = "INCREMENT_COUNT" ->
         {KeyP(NoStr), AmountP("missing", 3)}
         \cup {AmountP("count", a) : a \in {-2, 0, 3}}
    [] actionType = "RESET_TIMER" ->
         {InitP(NoStr, 10), KeyP("missing")}
    [] actionType = "ADD_CHECKLIST_ITEM" ->
         {ValueP(NoStr, NoStr), ValueP(NoStr, "Buy milk"), ValueP("missing", "Buy milk")}
    [] actionType \in {"TOGGLE_CHECKLIST_ITEM", "DELETE_CHECKLIST_ITEM"} ->
         {KeyP(NoStr), IndexP("missing", 0)} \cup {IndexP(NoStr, i) : i \in Indexes}
    [] actionType = "EDIT_CHECKLIST_ITEM" ->
         {ValueP(NoStr, "Sunscreen"), EditP("missing", 0, "Sunscreen")}
         \cup {EditP(NoStr, i, "Sunscreen") : i \in Indexes}
    [] actionType = "TOGGLE_STATE" ->
         {KeyP("is_active")}
    [] OTHER -> {EmptyPayload}

\* the catalogue handled by handleAppAction and the names it does not handle
Catalogue ==
  {"INCREMENT_COUNT", "START_TIMER", "STOP_TIMER", "RESET_TIMER",
   "ADD_CHECKLIST_ITEM", "TOGGLE_CHECKLIST_ITEM", "DELETE_CHECKLIST_ITEM",
   "EDIT_CHECKLIST_ITEM"}
ActionTypes == Catalogue \cup {"TOGGLE_STATE"}

(***************************************************************************)
(* The universal-schema engine of part_002.                                *)
(***************************************************************************)
InputIds == {"amount"}
\* what the user may have typed into an input
TypedValues == {"", "  ", "7", "abc"}
\* typedValue.trim()
Trim(s) == IF s = "  " THEN "" ELSE s

\* finalValue.startsWith("$INPUT:"), over the strings of the model
Placeholders == {"$INPUT:amount", "$INPUT:other"}
StartsWithInput(v) == v.t = "str" /\ v.s \in Placeholders
\* finalValue.replace("$INPUT:", "")
InputIdOf(s) == IF s = "$INPUT:amount" THEN "amount" ELSE "other"
\* formState[inputId], NoStr for undefined
TypedValue(form, inputId) == IF inputId \in DOMAIN form THEN form[inputId] ELSE NoStr

\* typedValue === undefined || typedValue.trim() === "" (part_002:169)
IsBlankNoTrim(typedValue) == typedValue = NoStr \/ typedValue = ""

IsBlank(typedValue) == typedValue = NoStr \/ Trim(typedValue) = ""

\* Number(v) || 0
NumberOr0(v) == IF ToNumber(v).t = "nan" THEN Num(0) ELSE ToNumber(v)
\* a + b, both numbers
NumPlus(a, b) == IF a.t = "nan" \/ b.t = "nan" THEN NaN ELSE Num(a.n + b.n)
\* d[k], undefined for an absent key
Lookup(d, k) == IF HasKey(d, k) THEN Get(d, k) ELSE Undef

ToolPayload(key, operation, value) == [key |-> key, operation |-> operation, value |-> value]

\* executeTool (part_002:160-182), for a payload that is present.  same tells
\* that the function returned currentData itself and not a copy.
ExecuteTool(toolName, payload, currentData, form) ==
  LET typedValue == TypedValue(form, InputIdOf(payload.value.s))
      finalValue ==
        IF StartsWithInput(payload.value)
        THEN (IF ToNumber(Str(typedValue)).t = "nan" THEN Str(typedValue)
              ELSE ToNumber(Str(typedValue)))
        ELSE payload.value
  IN  IF StartsWithInput(payload.value) /\ IsBlank(typedValue)
      THEN [data |-> currentData, same |-> TRUE]
      ELSE [data |->
              CASE toolName = "update_data" /\ payload.operation = "add" ->
                     Put(currentData, payload.key,
                         NumPlus(NumberOr0(Lookup(currentData, payload.key)),
                                 ToNumber(finalValue)))
                [] toolName = "update_data" /\ payload.operation = "set" ->
                     Put(currentData, payload.key, finalValue)
                [] toolName = "reset_data" ->
                     Put(currentData, payload.key, finalValue)
                [] OTHER -> currentData,
            same |-> FALSE]

\* transformToBlocks (part_002:91-107), its effect on the data object it is
\* given: under the hero_center layout the main key is forced to 0 when its
\* value is falsy.
MainKey(data) ==
  LET m == {i \in DOMAIN data : data[i].k # "unit"}
  IN  IF m = {} \/ data[SetMin(m)].k = "" THEN "count" ELSE data[SetMin(m)].k

TransformToBlocks(data, layout) ==
  IF layout = "hero_center" /\ ~Truthy(Lookup(data, MainKey(data)))
  THEN Put(data, MainKey(data), Num(0))
  ELSE data

NoApp == [active |-> FALSE, layout |-> "", data |-> <<>>]
NoTool ==
  [tool |-> "none", payload |-> ToolPayload("", "", Undef), prevData |-> <<>>,
   form |-> [id \in InputIds |-> NoStr]]

\* the data objects an LLM response may deliver to this engine
ToolStates ==
  { <<>>,
    << [k |-> "cups", v |-> Num(3)] >>,
    << [k |-> "unit", v |-> Str("cups")] >>,
    << [k |-> "note", v |-> Str("")], [k |-> "cups", v |-> Num(0)] >> }
Layouts == {"hero_center", "list_vertical"}

\* handleSend, the response applied (part_002:225-246): the app's data has
\* been through transformToBlocks
ToolCreate(layout, data) ==
  /\ ~uApp.active
  /\ uApp' = [active |-> TRUE, layout |-> layout, data |-> TransformToBlocks(data, layout)]
  /\ UNCHANGED <<formState, lastTool, steps, engineVars, chatVars, sessionVars, rendererVars>>

\* handleInputChange (part_002:156-158)
HandleInputChange(id, value) ==
  /\ uApp.active
  /\ formState[id] # value
  /\ formState' = [formState EXCEPT ![id] = value]
  /\ UNCHANGED <<uApp, lastTool, steps, engineVars, chatVars, sessionVars, rendererVars>>

\* handleAppAction of part_002 (184-198) for an action that names a tool and
\* carries a payload
HandleToolAction(toolName, payload) ==
  /\ steps < MaxSteps
  /\ uApp.active
  /\ LET r == ExecuteTool(toolName, payload, uApp.data, formState)
     IN  uApp' = [uApp EXCEPT !.data = TransformToBlocks(r.data, uApp.layout)]
  /\ formState' = [id \in InputIds |-> NoStr]
  /\ lastTool' = [tool |-> toolName, payload |-> payload, prevData |-> uApp.data,
                  form |-> formState]
  /\ steps' = steps + 1
  /\ UNCHANGED <<engineVars, chatVars, sessionVars, rendererVars>>

\* the tool invocations of the model; append_to_list is a tool this version
\* of executeTool does not know
ToolInvocations ==
  {[tool |-> "update_data", payload |-> ToolPayload("cups", "add", v)] :
     v \in {Str("$INPUT:amount"), Num(1)}}
  \cup {[tool |-> "update_data", payload |-> ToolPayload(k, "set", v)] :
     k \in {"cups", "note"}, v \in {Str("$INPUT:amount"), Str("")}}
  \cup {[tool |-> "reset_data", payload |-> ToolPayload("cups", "", v)] :
     v \in {Str("$INPUT:other"), Undef}}
  \cup {[tool |-> "append_to_list", payload |-> ToolPayload("cups", "", Str("$INPUT:amount"))]}

NextTool ==
  \/ \E l \in Layouts, d \in ToolStates : ToolCreate(l, d)
  \/ \E id \in InputIds, v \in TypedValues : HandleInputChange(id, v)
  \/ \E i \in ToolInvocations : HandleToolAction(i.tool, i.payload)

(***************************************************************************)
(* Initial state: no app yet.                                              *)
(***************************************************************************)
Init ==
  /\ apps = <<>>
  /\ activeAppId = 0
  /\ heap = <<>>
  /\ now = 1
  /\ steps = 0
  /\ ticks = 0
  /\ last = NoLast
  /\ uApp = NoApp
  /\ formState = [id \in InputIds |-> NoStr]
  /\ lastTool = NoTool
  /\ fault = NoFault
  /\ pending = <<>>
  /\ nodes = <<>>
  /\ blueprintRef = 0
  /\ cleanRef = 0
  /\ given = <<>>
  /\ screen = NoScreen
  /\ messages = <<>>
  /\ loading = FALSE
  /\ rateLimitTimer = 0
  /\ awaiting = <<>>
  /\ calls = 0
  /\ requests = 0
  /\ reply = NoReply

(***************************************************************************)
(* handleSend, the response applied (part_001:255-266), when no app is    *)
(* active: a new app is appended and becomes the active one.               *)
(***************************************************************************)
NewApp(id, archetype, data) ==
  [id |-> id, title |-> "Tool", archetype |-> archetype, blueprint |-> "bp", data |-> data]

CreateApp(archetype, st) ==
  /\ activeAppId = 0
  /\ apps = <<>>
  /\ apps' = Append(apps, NewApp(now, archetype, Relocate(st.data, Len(heap))))
  /\ heap' = heap \o st.heap
  /\ activeAppId' = now
  /\ UNCHANGED <<now, steps, ticks, last, toolVars, chatVars, sessionVars, rendererVars>>

(***************************************************************************)
(* handleAppAction (part_001:127-225): the updater maps over the apps and  *)
(* rewrites every app whose id is activeAppId.                             *)
(***************************************************************************)
\* an updater that rewrites every app of the list
MapActionEveryApp(rest, done, hp, clock, active, actionType, payload) ==
  [apps |-> [i \in DOMAIN rest |->
               [rest[i] EXCEPT !.data =
                  ApplyAction(rest[i].data, hp, clock, actionType, payload).data]],
   heap |-> hp]

RECURSIVE MapAction(_, _, _, _, _, _, _)
MapAction(rest, done, hp, clock, active, actionType, payload) ==
  IF rest = <<>> THEN [apps |-> done, heap |-> hp]
  ELSE LET app == Head(rest)
       IN  IF app.id # active
           THEN MapAction(Tail(rest), Append(done, app), hp, clock, active,
                          actionType, payload)
           ELSE LET r == ApplyAction(app.data, hp, clock, actionType, payload)
                IN  MapAction(Tail(rest), Append(done, [app EXCEPT !.data = r.data]),
                              r.heap, clock, active, actionType, payload)

ActiveApp == CHOOSE i \in DOMAIN apps : apps[i].id = activeAppId
HasActiveApp == \E i \in DOMAIN apps : apps[i].id = activeAppId
\* the data bag of the active app
ActiveData == apps[ActiveApp].data

HandleAppAction(actionType, payload) ==
  /\ steps < MaxSteps
  /\ HasActiveApp
  /\ LET r == MapAction(apps, <<>>, heap, now, activeAppId, actionType, payload)
     IN  /\ apps' = r.apps
         /\ heap' = r.heap
  /\ steps' = steps + 1
  /\ ticks' = 0
  /\ last' = [op |-> actionType, payload |-> payload,
              prevData |-> ActiveData, prevDeep |-> Deep(ActiveData, heap),
              before |-> [op |-> last.op, payload |-> last.payload]]
  /\ UNCHANGED <<activeAppId, now, toolVars, chatVars, sessionVars, rendererVars>>

UserAction == \E a \in ActionTypes : \E p \in Payloads(a) : HandleAppAction(a, p)

Create == \E a \in {"Checklist"}, st \in InitialStates : CreateApp(a, st)

Next == Create \/ UserAction

Spec == Init /\ [][Next]_vars

(***************************************************************************)
(* The timer heartbeat (part_001:97-122): every second, every Regulator    *)
(* app whose is_running is truthy has its first numeric field decremented  *)
(* while it is above 0, and is stopped and marked finished otherwise.      *)
(***************************************************************************)
\* Object.keys(app.data).find(k => typeof app.data[k] === 'number')
TimeKey(d) ==
  LET m == {i \in DOMAIN d : IsNumber(d[i].v)}
  IN  IF m = {} THEN NoStr ELSE d[SetMin(m)].k

\* a heartbeat that hands every app back without its blueprint
TickAppDroppingBlueprint(app) == [app EXCEPT !.blueprint = ""]

\* a heartbeat that decrements without looking at the value
TickAppBelowZero(app) ==
  IF app.archetype = "Regulator" /\ HasKey(app.data, "is_running")
     /\ Truthy(Get(app.data, "is_running")) /\ TimeKey(app.data) # NoStr
  THEN [app EXCEPT !.data =
          Put(app.data, TimeKey(app.data), Num(Get(app.data, TimeKey(app.data)).n - 1))]
  ELSE app

TickApp(app) ==
  IF app.archetype = "Regulator" /\ HasKey(app.data, "is_running")
     /\ Truthy(Get(app.data, "is_running"))
  THEN LET timeKey == TimeKey(app.data)
       IN  IF timeKey # NoStr /\ timeKey # ""
           THEN IF Get(app.data, timeKey).t = "num" /\ Get(app.data, timeKey).n > 0
                THEN [app EXCEPT !.data =
                        Put(app.data, timeKey, Num(Get(app.data, timeKey).n - 1))]
                ELSE [app EXCEPT !.data =
                        Put(Put(app.data, "is_running", Bool(FALSE)),
                            "finished", Bool(TRUE))]
           ELSE app
  ELSE app

Tick ==
  /\ ticks < MaxTicks
  /\ apps' = [i \in DOMAIN apps |-> TickApp(apps[i])]
  /\ ticks' = ticks + 1
  /\ UNCHANGED <<activeAppId, heap, now, steps, last, toolVars, chatVars, sessionVars, rendererVars>>

(***************************************************************************)
(* The timer specification: a Regulator (or other) app, the timer actions  *)
(* and the heartbeat.                                                      *)
(***************************************************************************)
TimerStates ==
  { [data |-> <<>>, heap |-> <<>>],
    [data |-> << [k |-> "time_remaining", v |-> Num(2)],
                 [k |-> "is_running", v |-> Bool(TRUE)],
                 [k |-> "finished", v |-> Bool(FALSE)] >>, heap |-> <<>>],
    [data |-> << [k |-> "is_running", v |-> Bool(FALSE)],
                 [k |-> "seconds", v |-> Num(3)] >>, heap |-> <<>>] }

TimerPayloads(actionType) ==
  CASE actionType = "RESET_TIMER" -> {KeyP(NoStr), InitP(NoStr, 10), InitP("seconds", 10)}
    [] OTHER -> {EmptyPayload}

CreateTimer == \E a \in {"Regulator", "Accumulator"}, st \in TimerStates : CreateApp(a, st)

TimerAction ==
  \E a \in {"START_TIMER", "STOP_TIMER", "RESET_TIMER"} :
    \E p \in TimerPayloads(a) : HandleAppAction(a, p)

NextTimer == CreateTimer \/ TimerAction \/ Tick

SpecTimer == Init /\ [][NextTimer]_vars

SpecTool == Init /\ [][NextTool]_vars

\* what the active app's data bag holds now
Data == Deep(ActiveData, heap)

(***************************************************************************)
(* Vocabulary of the properties.                                           *)
(***************************************************************************)
Scalar(v) == [t |-> "scalar", val |-> v]
DeepItems(items) == [t |-> "deeplist", items |-> items]
Entry(k, v) == [k |-> k, v |-> v]

\* the operations that locate their target field through findBestKey
KeyedOps ==
  {"INCREMENT_COUNT", "RESET_TIMER", "ADD_CHECKLIST_ITEM", "TOGGLE_CHECKLIST_ITEM",
   "DELETE_CHECKLIST_ITEM", "EDIT_CHECKLIST_ITEM"}
ListOps ==
  {"ADD_CHECKLIST_ITEM", "TOGGLE_CHECKLIST_ITEM", "DELETE_CHECKLIST_ITEM",
   "EDIT_CHECKLIST_ITEM"}
ExpectedType(op) == IF op \in ListOps THEN "array" ELSE "number"
DefaultKey(op) ==
  CASE op = "INCREMENT_COUNT" -> "count"
    [] op = "RESET_TIMER"     -> "time_remaining"
    [] OTHER                  -> "items"

\* the key the last invocation asked for
Requested == KeyOr(last.payload, DefaultKey(last.op))
\* the keys of d whose value has the type, in key order
TypedKeys(d, type) == {i \in DOMAIN d : TypeMatches(d[i].v, type)}
\* the key the three resolution rules of the design name
RuleKey(d, req, type) ==
  IF HasKey(d, req) THEN req
  ELSE IF TypedKeys(d, type) # {} THEN d[SetMin(TypedKeys(d, type))].k
  ELSE req
\* the third rule applies: neither the requested key nor a key of the type
Unmatched(d, req, type) == ~HasKey(d, req) /\ TypedKeys(d, type) = {}

\* C1: the key an operation resolves is the requested key if it exists, else
\* the first key of the expected type, else the requested key, which the
\* operation then creates with a value of the expected type.
C1_KeyResolution ==
  last.op \in KeyedOps =>
    LET type == ExpectedType(last.op)
    IN  /\ FindBestKey(last.prevData, Requested, type)
             = RuleKey(last.prevData, Requested, type)
        /\ Unmatched(last.prevData, Requested, type) =>
             /\ HasKey(ActiveData, Requested)
             /\ TypeMatches(Get(ActiveData, Requested), type)

\* the effect of the last operation applied once to a fresh default at key k
FreshEffect(k) ==
  CASE last.op = "INCREMENT_COUNT" ->
         Get(ActiveData, k) = Num(AmountOr1(last.payload))
    [] last.op = "RESET_TIMER" ->
         Get(ActiveData, k) = Num(InitialValueOr0(last.payload))
    [] last.op = "ADD_CHECKLIST_ITEM" ->
         /\ Len(Get(ActiveData, k).l) = 1
         /\ heap[Get(ActiveData, k).l[1]].checked = FALSE
    [] OTHER -> Get(ActiveData, k).l = <<>>

\* C2: an operation that requests a key absent from data leaves that key in
\* data with the type of the operation and its effect applied exactly once.
C2_SelfHealing ==
  (last.op \in KeyedOps /\ ~HasKey(last.prevData, Requested)) =>
    /\ HasKey(ActiveData, Requested)
    /\ TypeMatches(Get(ActiveData, Requested), ExpectedType(last.op))
    /\ FreshEffect(Requested)

\* every entry of the bag except the one at key k is what it was
OthersUnchanged(k) ==
  /\ KeysOf(ActiveData) \ {k} = KeysOf(last.prevData) \ {k}
  /\ \A i \in DOMAIN last.prevData :
       last.prevData[i].k # k => Deep(ActiveData, heap)[i] = last.prevDeep[i]

\* C3: INCREMENT_COUNT on an existing numeric key adds the payload's amount
\* (0 and negative amounts included), 1 when the amount is omitted, and
\* leaves every other key unchanged.
C3_Increment ==
  (/\ last.op = "INCREMENT_COUNT"
   /\ HasKey(last.prevData, Requested)
   /\ Get(last.prevData, Requested).t = "num") =>
    /\ Get(ActiveData, Requested)
         = Num(Get(last.prevData, Requested).n
               + (IF last.payload.hasAmount THEN last.payload.amount ELSE 1))
    /\ OthersUnchanged(Requested)

\* the invocation of the increment example on the bag {count: 5}
IncrementMissingCase ==
  /\ last.op = "INCREMENT_COUNT"
  /\ last.payload = AmountP("missing", 3)
  /\ last.prevDeep = << Entry("count", Scalar(Num(5))) >>

\* C4 as stated: {count:5} with {key:'missing', amount:3} yields
\* {count:5, missing:3}.
C4_CreatesMissing ==
  IncrementMissingCase =>
    Data = << Entry("count", Scalar(Num(5))), Entry("missing", Scalar(Num(3))) >>

\* C4 as the code has it: 'missing' resolves to count, the first numeric key,
\* so the result is {count: 8} and no key 'missing' is created.
C4_FallsBackToCount ==
  IncrementMissingCase => Data = << Entry("count", Scalar(Num(8))) >>

C4_Witness == IncrementMissingCase /\ ~HasKey(ActiveData, "missing")

\* the bag {items: [the items]}
ItemsBag(items) == << Entry("items", DeepItems(items)) >>
\* the bag is {items: [one item with the label and the flag]}
OneItemBag(bag, label, checked) ==
  /\ Len(bag) = 1
  /\ bag[1].k = "items"
  /\ bag[1].v.t = "deeplist"
  /\ Len(bag[1].v.items) = 1
  /\ bag[1].v.items[1].label = label
  /\ bag[1].v.items[1].checked = checked

\* C6: on {items: []}, ADD_CHECKLIST_ITEM 'Buy milk' yields exactly one item
\* labelled 'Buy milk' with checked false; TOGGLE_CHECKLIST_ITEM at index 0
\* then sets its checked to true; DELETE_CHECKLIST_ITEM at index 0 then
\* yields {items: []}.
C6_ListLifecycle ==
  /\ (/\ last.op = "ADD_CHECKLIST_ITEM"
      /\ last.payload = ValueP(NoStr, "Buy milk")
      /\ last.prevDeep = ItemsBag(<<>>))
       => OneItemBag(Data, "Buy milk", FALSE)
  /\ (/\ last.op = "TOGGLE_CHECKLIST_ITEM"
      /\ last.payload = IndexP(NoStr, 0)
      /\ OneItemBag(last.prevDeep, "Buy milk", FALSE))
       => OneItemBag(Data, "Buy milk", TRUE)
  /\ (/\ last.op = "DELETE_CHECKLIST_ITEM"
      /\ last.payload = IndexP(NoStr, 0)
      /\ OneItemBag(last.prevDeep, "Buy milk", TRUE))
       => Data = ItemsBag(<<>>)

\* the whole lifecycle has run: the checked 'Buy milk' item was deleted
C6_Witness ==
  /\ last.op = "DELETE_CHECKLIST_ITEM"
  /\ last.payload = IndexP(NoStr, 0)
  /\ last.before = [op |-> "TOGGLE_CHECKLIST_ITEM", payload |-> IndexP(NoStr, 0)]
  /\ OneItemBag(last.prevDeep, "Buy milk", TRUE)
  /\ Data = ItemsBag(<<>>)

\* the list the last list operation addressed, as it was before the operation
AddressedKey == FindBestKey(last.prevData, Requested, "array")
AddressesList ==
  /\ HasKey(last.prevData, AddressedKey)
  /\ IsArray(Get(last.prevData, AddressedKey))
\* the payload's index is not a position of that list
InvalidIndex ==
  \/ ~last.payload.hasIndex
  \/ last.payload.index < 0
  \/ last.payload.index >= Len(Get(last.prevData, AddressedKey).l)

\* C8: TOGGLE_, DELETE_ and EDIT_CHECKLIST_ITEM with an index that is not a
\* position of the list (too large, negative or absent) leave the list
\* unchanged.
C8_IndexOutOfRange ==
  (/\ last.op \in {"TOGGLE_CHECKLIST_ITEM", "DELETE_CHECKLIST_ITEM", "EDIT_CHECKLIST_ITEM"}
   /\ AddressesList
   /\ InvalidIndex)
    => Data = last.prevDeep

\* C9: TOGGLE_STATE with key k sets data[k] to the negation of its previous
\* boolean value.
C9_ToggleState ==
  (/\ last.op = "TOGGLE_STATE"
   /\ HasKey(last.prevData, last.payload.key)
   /\ IsBoolean(Get(last.prevData, last.payload.key)))
    => Get(ActiveData, last.payload.key)
         = Bool(~Get(last.prevData, last.payload.key).b)

\* C10: no operation modifies the data bag it was given or an item reachable
\* from it: the previous snapshot still holds what it held.
C10_SnapshotImmutable ==
  last.op # "none" => Deep(last.prevData, heap) = last.prevDeep

\* RESET_TIMER with initialValue 10 and then START_TIMER were the last two
\* user actions, on a Regulator app
TimerArmed ==
  /\ HasActiveApp
  /\ apps[ActiveApp].archetype = "Regulator"
  /\ last.op = "START_TIMER"
  /\ last.before.op = "RESET_TIMER"
  /\ last.before.payload.hasInit
  /\ last.before.payload.initialValue = 10
\* the field that RESET_TIMER set: the one its key resolution chose in the
\* bag that START_TIMER was given (the flags were in place by then)
TimeField ==
  FindBestKey(last.prevData, KeyOr(last.before.payload, "time_remaining"), "number")
Flag(k) == HasKey(ActiveData, k) /\ Get(ActiveData, k) = Bool(TRUE)
NotFlag(k) == HasKey(ActiveData, k) /\ Get(ActiveData, k) = Bool(FALSE)

\* C5: RESET_TIMER with initialValue 10 followed by START_TIMER leaves the
\* time field at 10, running and not finished; after exactly ten heartbeat
\* firings and no user action the time field is 0, the timer is not running
\* and it is finished.
C5_TimerEndToEnd ==
  /\ (TimerArmed /\ ticks = 0) =>
       /\ Get(ActiveData, TimeField) = Num(10)
       /\ Flag("is_running") /\ NotFlag("finished")
  /\ (TimerArmed /\ ticks = 10) =>
       /\ Get(ActiveData, TimeField) = Num(0)
       /\ NotFlag("is_running") /\ Flag("finished")

\* the last tool invocation carried an input placeholder whose form-state
\* entry was unset, empty or whitespace
UnresolvedInput ==
  /\ lastTool.tool # "none"
  /\ lastTool.payload.value.t = "str"
  /\ lastTool.payload.value.s \in Placeholders
  /\ LET typed == TypedValue(lastTool.form, InputIdOf(lastTool.payload.value.s))
     IN  typed \in {NoStr, "", "  "}

\* C7: an action whose payload value is a placeholder '$INPUT:<id>' with
\* formState[<id>] unset, empty or whitespace-only leaves the stored data
\* exactly unchanged, for every tool and every data bag.
C7_UnresolvedInputGuard == UnresolvedInput => uApp.data = lastTool.prevData

\* the guard has acted on whitespace typed into the input, under the layout
\* whose rendering rewrites the data
C7_Witness ==
  /\ UnresolvedInput
  /\ lastTool.form["amount"] = "  "
  /\ lastTool.payload.value.s = "$INPUT:amount"
  /\ uApp.layout = "hero_center"
  /\ lastTool.prevData # <<>>

(***************************************************************************)
(* handleAppAction dispatched without a payload.  ActionButton hands the   *)
(* block's payload to onAction as it is (part_003:24), and the response    *)
(* schema lets a block leave it out (part_001:54-64), so the updater may   *)
(* run with payload null or undefined.  Every branch but START_TIMER and   *)
(* STOP_TIMER reads a property of payload first (part_001:155, 172, 180,   *)
(* 197, 206, 215), which is a TypeError on null; the error escapes the     *)
(* updater, nothing catches it and the state is not replaced.              *)
(***************************************************************************)
\* a name that no branch of the updater handles
UnknownActions == {"NO_SUCH_ACTION"}

\* the action types whose branch reads payload.key
ReadsPayload == Catalogue \ {"START_TIMER", "STOP_TIMER"}

HandleAppActionNoPayload(actionType) ==
  /\ steps < MaxSteps
  /\ HasActiveApp
  /\ fault.raised = ""
  /\ IF actionType \in ReadsPayload
     THEN /\ fault' = [op |-> actionType, raised |-> "TypeError"]
          /\ UNCHANGED <<apps, heap, last>>
     ELSE /\ LET r == MapAction(apps, <<>>, heap, now, activeAppId, actionType,
                                EmptyPayload)
             IN  /\ apps' = r.apps
                 /\ heap' = r.heap
          /\ fault' = [op |-> actionType, raised |-> ""]
          /\ last' = [op |-> actionType, payload |-> EmptyPayload,
                      prevData |-> ActiveData, prevDeep |-> Deep(ActiveData, heap),
                      before |-> [op |-> last.op, payload |-> last.payload]]
  /\ steps' = steps + 1
  /\ ticks' = 0
  /\ UNCHANGED <<activeAppId, now, pending, toolVars, chatVars, rendererVars>>

\* the React tree is still mounted: the action is dispatched with payload {}
Dispatch(actionType) ==
  /\ fault.raised = ""
  /\ HandleAppAction(actionType, EmptyPayload)

NoPayloadAction ==
  \E a \in Catalogue \cup UnknownActions : HandleAppActionNoPayload(a)

EmptyPayloadAction ==
  \E a \in {"INCREMENT_COUNT", "ADD_CHECKLIST_ITEM"} \cup UnknownActions : Dispatch(a)

NextFault == Create \/ NoPayloadAction \/ EmptyPayloadAction

SpecFault == Init /\ [][NextFault]_vars

\* C11: no catalogue action dispatched with an absent or null payload raises:
\* handleAppAction completes and the app keeps a data bag.
C11_NullPayloadNeverRaises ==
  fault.op \in Catalogue => (fault.raised = "" /\ HasActiveApp)

\* C12: an action name outside the catalogue produces an error outcome; it is
\* not absorbed as an unchanged data bag.
C12_UnknownActionFailsLoudly ==
  last.op \in UnknownActions => (fault.raised # "" /\ fault.op = last.op)

(***************************************************************************)
(* The apps list of part_001 under LLM responses, selection and deletion.  *)
(* handleSend (part_001:227-278) is asynchronous: the call captures the    *)
(* activeAppId of the render that created it, awaits the response, and     *)
(* only then builds newApp.  Nothing stops a second call while one is      *)
(* awaited (the send button is disabled by the rate limit and by an empty  *)
(* input only, part_001:315).  The chat messages, the loading flag and the *)
(* rate-limit timer are not followed here.                                 *)
(***************************************************************************)
\* requests awaited at once, apps created, and readings of Date.now()
MaxPending == 2
MaxApps == 2
MaxClock == 2

\* a millisecond passes
ClockAdvance ==
  /\ now < MaxClock
  /\ now' = now + 1
  /\ UNCHANGED <<apps, activeAppId, heap, steps, ticks, last, toolVars, chatVars, sessionVars,
                 rendererVars>>

\* handleSend up to the await (part_001:227-251)
SendRequest ==
  /\ Len(pending) < MaxPending
  /\ pending' = Append(pending, activeAppId)
  /\ UNCHANGED <<engineVars, steps, fault, toolVars, chatVars, rendererVars>>

\* the sequence without its i-th element
Without(s, i) == [j \in 1..(Len(s) - 1) |-> IF j < i THEN s[j] ELSE s[j + 1]]

\* the responses of the model: tool_name, archetype, blueprint, initial_state
Responses ==
  { [archetype |-> "Regulator", blueprint |-> "bp",
     data |-> << [k |-> "time_remaining", v |-> Num(1)] >>],
    [archetype |-> "Accumulator", blueprint |-> "bp2",
     data |-> << [k |-> "count", v |-> Num(5)] >>] }

\* a handleSend that puts the app back when the list no longer has it
ApplyResponseUpsert(i, response) ==
  LET target == pending[i]
      newApp == [NewApp(IF target # 0 THEN target ELSE now, response.archetype,
                        response.data)
                   EXCEPT !.blueprint = response.blueprint]
  IN  /\ i \in DOMAIN pending
      /\ Len(apps) < MaxApps
      /\ apps' = Append(SelectSeq(apps, LAMBDA a : a.id # newApp.id), newApp)
      /\ activeAppId' = newApp.id
      /\ pending' = Without(pending, i)

\* handleSend after the await, the response carrying tool_name and blueprint
\* (part_001:253-268); target is the activeAppId of the call's closure
ApplyResponse(i, response) ==
  LET target == pending[i]
      newApp == [NewApp(IF target # 0 THEN target ELSE now, response.archetype,
                        response.data)
                   EXCEPT !.blueprint = response.blueprint]
  IN  /\ i \in DOMAIN pending
      /\ target = 0 => Len(apps) < MaxApps
      /\ IF target # 0
         THEN /\ apps' = [j \in DOMAIN apps |->
                            IF apps[j].id = target THEN newApp ELSE apps[j]]
              /\ UNCHANGED activeAppId
         ELSE /\ apps' = Append(apps, newApp)
              /\ activeAppId' = newApp.id
      /\ pending' = Without(pending, i)

ReceiveApp(i, response) ==
  /\ ApplyResponse(i, response)
  /\ UNCHANGED <<heap, now, steps, ticks, last, fault, toolVars, chatVars, rendererVars>>

\* handleSend after the await, a response with a message only, or an error
\* caught (part_001:269-276): the apps are left alone
ReceiveNoApp(i) ==
  /\ i \in DOMAIN pending
  /\ pending' = Without(pending, i)
  /\ UNCHANGED <<engineVars, steps, fault, toolVars, chatVars, rendererVars>>

\* the dock: an app's card is clicked, or the new-app card (part_001:350-352)
SelectApp(id) ==
  /\ id = 0 \/ \E i \in DOMAIN apps : apps[i].id = id
  /\ activeAppId # id
  /\ activeAppId' = id
  /\ UNCHANGED <<apps, heap, now, steps, ticks, last, toolVars, chatVars, sessionVars,
                 rendererVars>>

\* deleteApp (part_001:281)
DeleteApp(id) ==
  /\ \E i \in DOMAIN apps : apps[i].id = id
  /\ apps' = SelectSeq(apps, LAMBDA a : a.id # id)
  /\ activeAppId' = IF activeAppId = id THEN 0 ELSE activeAppId
  /\ UNCHANGED <<heap, now, steps, ticks, last, toolVars, chatVars, sessionVars, rendererVars>>

AppIds == {apps[i].id : i \in DOMAIN apps}

Receive ==
  \E i \in 1..MaxPending :
    \/ \E r \in Responses : ReceiveApp(i, r)
    \/ ReceiveNoApp(i)

Select == \E id \in AppIds \cup {0} : SelectApp(id)

Delete == \E id \in AppIds : DeleteApp(id)

\* one local action is followed in this specification (Spec and SpecTimer
\* follow sequences of them)
LocalAction ==
  /\ steps = 0
  /\ \E a \in {"INCREMENT_COUNT", "START_TIMER"} : HandleAppAction(a, EmptyPayload)

\* one heartbeat firing is followed after each user action
FirstTick == ticks = 0 /\ Tick

NextApps ==
  \/ SendRequest
  \/ Receive
  \/ Select
  \/ Delete
  \/ LocalAction
  \/ FirstTick
  \/ ClockAdvance

SpecApps == Init /\ [][NextApps]_vars

\* the step is a local action or a heartbeat firing
LocalStep == steps' # steps \/ ticks' # ticks

\* C13: a local action (handleAppAction) or a tick-driver step leaves the
\* blueprint of every app unchanged; a blueprint changes only in a step that
\* applies an LLM response.
C13_BlueprintImmutable ==
  [][LocalStep =>
       /\ Len(apps') = Len(apps)
       /\ \A i \in DOMAIN apps :
            apps'[i].id = apps[i].id /\ apps'[i].blueprint = apps[i].blueprint]_vars

\* two apps hold the blueprints two responses gave them; START_TIMER has
\* acted on the second and a heartbeat firing has decremented its time since
C13_Witness ==
  /\ Len(apps) = 2
  /\ apps[1].blueprint = "bp2"
  /\ apps[2].blueprint = "bp"
  /\ activeAppId = apps[2].id
  /\ last.op = "START_TIMER"
  /\ Get(apps[2].data, "time_remaining") = Num(0)
  /\ ticks = 1

\* C14: no two apps of the list share an id.
C14_UniqueAppIds ==
  \A i, j \in DOMAIN apps : i # j => apps[i].id # apps[j].id

(***************************************************************************)
(* The heartbeat keeps firing: setInterval(..., 1000) runs for as long as  *)
(* the App component is mounted (part_001:98, 119-121).  TickOn is a firing *)
(* past those that the ticks counter counts: the heartbeat goes on, the    *)
(* counter stays.                                                          *)
(***************************************************************************)
TickOn ==
  /\ ticks = MaxTicks
  /\ apps' = [i \in DOMAIN apps |-> TickApp(apps[i])]
  /\ UNCHANGED <<activeAppId, heap, now, steps, ticks, last, toolVars, chatVars, sessionVars,
                 rendererVars>>

NextTimerFair == NextTimer \/ TickOn

SpecTimerFair == Init /\ [][NextTimerFair]_vars /\ WF_vars(Tick) /\ WF_vars(TickOn)

\* the app is a Regulator whose is_running flag is true
RunningRegulator ==
  /\ HasActiveApp
  /\ apps[ActiveApp].archetype = "Regulator"
  /\ Flag("is_running")
\* the app is stopped and finished with its time field, the first numeric
\* field of its bag, at zero
FinishedAtZero ==
  /\ HasActiveApp
  /\ NotFlag("is_running")
  /\ Flag("finished")
  /\ TimeKey(ActiveData) # NoStr
  /\ Get(ActiveData, TimeKey(ActiveData)) = Num(0)

\* C15: a Regulator app whose is_running flag is true eventually reaches
\* is_running = false and finished = true with its time field at zero, if
\* the heartbeat keeps firing and no user action intervenes.
C15_TickLiveness ==
  \A s \in 0..MaxSteps :
    (RunningRegulator /\ steps = s) ~> (FinishedAtZero \/ steps # s)

(***************************************************************************)
(* The blueprint normalizer and the renderer of part_004.  A blueprint     *)
(* there is a tree of nodes {type, props, children}; the nodes are objects *)
(* in nodes, a reference is an index into it and 0 is null.  A property    *)
(* that is absent is NoStr, "" is a falsy value that is present, and any   *)
(* other value (the action lists are written "[Save]", "[Go]", "[Old]")    *)
(* is truthy.  An absent children array and an empty one are both <<>>:    *)
(* the normalizer and the renderer treat them alike.                       *)
(***************************************************************************)
BNode(type, hasProps, buttons, btns, actions, content, text) ==
  [type |-> type, hasProps |-> hasProps, buttons |-> buttons, btns |-> btns,
   actions |-> actions, content |-> content, text |-> text, children |-> <<>>]

PropTruthy(p) == p # NoStr /\ p # ""

\* synonym folding that maps Buttons to the synonym ButtonList
FixTypeChained(type) ==
  IF type = "Buttons" THEN "ButtonList"
  ELSE IF type = "ButtonList" THEN "ButtonRow"
  ELSE IF type \in {"Paragraph", "Span", "Label"} THEN "Text"
  ELSE type

\* part_004:10-11
FixType(type) ==
  IF type \in {"ButtonList", "Buttons"} THEN "ButtonRow"
  ELSE IF type \in {"Paragraph", "Span", "Label"} THEN "Text"
  ELSE type

\* part_004:14-28
FixProps(node) ==
  LET n1 == IF PropTruthy(node.buttons)
            THEN [node EXCEPT !.actions = node.buttons, !.buttons = NoStr] ELSE node
      n2 == IF PropTruthy(n1.btns)
            THEN [n1 EXCEPT !.actions = n1.btns, !.btns = NoStr] ELSE n1
      n3 == IF PropTruthy(n2.content) /\ ~PropTruthy(n2.text)
            THEN [n2 EXCEPT !.text = n2.content] ELSE n2
      n4 == IF PropTruthy(n3.text) /\ ~PropTruthy(n3.content)
            THEN [n3 EXCEPT !.content = n3.text] ELSE n3
  IN  IF node.hasProps THEN n4 ELSE node

\* a normalizer that rewrites the children it is given and goes no deeper
NormalizeChildrenOneLevel(hp, children, i) ==
  [r \in DOMAIN hp |->
     IF \E j \in DOMAIN children : j >= i /\ children[j] = r
     THEN FixProps([hp[r] EXCEPT !.type = FixType(hp[r].type)])
     ELSE hp[r]]

\* normalizeBlueprint (part_004:6-36): the node is rewritten in place, then
\* its children in order; the result is the heap after the call (the value
\* returned is the node it was given, or null)
RECURSIVE NormalizeBlueprint(_, _), NormalizeChildren(_, _, _)
NormalizeBlueprint(hp, ref) ==
  IF ref = 0 THEN hp
  ELSE LET h1 == [hp EXCEPT ![ref] = FixProps([hp[ref] EXCEPT !.type = FixType(hp[ref].type)])]
       IN  NormalizeChildren(h1, h1[ref].children, 1)
NormalizeChildren(hp, children, i) ==
  IF i > Len(children) THEN hp
  ELSE NormalizeChildren(NormalizeBlueprint(hp, children[i]), children, i + 1)

\* a copy that shares the caller's nodes: the new root still refers to them
CopyTreeShared(tree) == tree

\* JSON.parse(JSON.stringify(blueprint)) (part_004:112) on a tree that fills
\* the heap: every node is a new object, placed after the caller's
CopyTree(tree) ==
  [i \in DOMAIN tree |->
     [tree[i] EXCEPT !.children =
        [j \in DOMAIN tree[i].children |->
           IF tree[i].children[j] = 0 THEN 0 ELSE tree[i].children[j] + Len(tree)]]]

\* the nodes an LLM response may hold
NodeKinds ==
  { BNode("Card", FALSE, NoStr, NoStr, NoStr, NoStr, NoStr),
    BNode("Card", TRUE, NoStr, NoStr, NoStr, NoStr, NoStr),
    BNode("Buttons", TRUE, "[Save]", NoStr, NoStr, NoStr, NoStr),
    BNode("ButtonList", TRUE, NoStr, "[Go]", NoStr, NoStr, NoStr),
    BNode("ButtonRow", TRUE, "[Save]", "[Go]", "[Old]", NoStr, NoStr),
    BNode("ButtonRow", TRUE, "", NoStr, "[Old]", NoStr, NoStr),
    BNode("Paragraph", TRUE, NoStr, NoStr, NoStr, "Hi", NoStr),
    BNode("Span", TRUE, NoStr, NoStr, NoStr, NoStr, "Yo"),
    BNode("Label", TRUE, NoStr, NoStr, NoStr, "Hi", "Yo"),
    BNode("Text", TRUE, NoStr, NoStr, NoStr, "", "Yo"),
    BNode("Gizmo", TRUE, NoStr, "[Go]", NoStr, "Hi", NoStr),
    BNode(NoStr, FALSE, NoStr, NoStr, NoStr, NoStr, NoStr) }

WithChildren(node, children) == [node EXCEPT !.children = children]

\* the nodes of the deeper trees: two synonym types and a type left alone
DeepKinds ==
  { BNode("Buttons", TRUE, "[Save]", NoStr, NoStr, NoStr, NoStr),
    BNode("Label", TRUE, NoStr, NoStr, NoStr, "Hi", "Yo"),
    BNode("Gizmo", TRUE, NoStr, "[Go]", NoStr, "Hi", NoStr) }

\* the blueprint trees of the model, the root first: a single node, a root
\* with a null child, with one child, with two, a chain of three, and a
\* chain of five
Trees ==
  {<<a>> : a \in NodeKinds}
  \cup {<<WithChildren(a, <<0>>)>> : a \in NodeKinds}
  \cup {<<WithChildren(a, <<2>>), b>> : a, b \in NodeKinds}
  \cup {<<WithChildren(a, <<2, 3>>), b, c>> : a, b, c \in NodeKinds}
  \cup {<<WithChildren(a, <<2>>), WithChildren(b, <<3>>), c>> : a, b, c \in NodeKinds}
  \cup {<<WithChildren(a, <<2>>), WithChildren(b, <<3>>), WithChildren(c, <<4>>),
          WithChildren(d, <<5>>), e>> : a, b, c, d, e \in DeepKinds}

\* the caller (the App) holds a blueprint
ReceiveBlueprint(tree) ==
  /\ blueprintRef = 0
  /\ nodes' = tree
  /\ blueprintRef' = 1
  /\ given' = tree
  /\ UNCHANGED <<cleanRef, screen, engineVars, steps, toolVars, chatVars, sessionVars>>

\* A2UIRenderer of part_004 (108-141): the blueprint is copied, the copy is
\* normalized and rendered; the copy of an earlier render is garbage
RenderBlueprint ==
  /\ blueprintRef # 0
  /\ LET caller  == SubSeq(nodes, 1, Len(given))
         rawData == blueprintRef + Len(caller)
     IN  /\ nodes' = NormalizeBlueprint(caller \o CopyTree(caller), rawData)
         /\ cleanRef' = rawData
  /\ UNCHANGED <<blueprintRef, given, screen, engineVars, steps, toolVars, chatVars, sessionVars>>

NextTree == (\E tree \in Trees : ReceiveBlueprint(tree)) \/ RenderBlueprint

SpecTree == Init /\ [][NextTree]_vars

\* the caller's tree as it is now
CallerTree == SubSeq(nodes, 1, Len(given))

\* C16: normalizing a normalized blueprint changes nothing, in the cleanData
\* the renderer built and for the caller's blueprint itself:
\* normalize(normalize(x)) = normalize(x).
C16_IdempotentNormalization ==
  /\ cleanRef # 0 => NormalizeBlueprint(nodes, cleanRef) = nodes
  /\ blueprintRef # 0 =>
       LET once == NormalizeBlueprint(given, blueprintRef)
       IN  NormalizeBlueprint(once, blueprintRef) = once

\* the renderer has normalized a tree whose root and child it had to rewrite:
\* a synonym type with an aliased action list above a node with content only
C16_Witness ==
  /\ cleanRef = 3
  /\ given[1].type = "Buttons"
  /\ nodes[3].type = "ButtonRow"
  /\ nodes[3].actions = "[Save]"
  /\ nodes[3].buttons = NoStr
  /\ given[2].type = "Paragraph"
  /\ nodes[4].type = "Text"
  /\ nodes[4].text = "Hi"

\* C17: rendering leaves the blueprint the caller passed in unchanged at
\* every depth: all rewrites happen on the copy.
C17_CallerBlueprintUnchanged == blueprintRef # 0 => CallerTree = given

\* the renderer has rewritten the copy of a grandchild with a synonym type
\* and of a child with an aliased property, and so the copy differs from the
\* caller's tree
C17_Witness ==
  /\ cleanRef = 4
  /\ given[2].btns = "[Go]"
  /\ nodes[5].actions = "[Go]"
  /\ given[2].children = <<3>>
  /\ given[3].type = "Span"
  /\ nodes[6].type = "Text"
  /\ nodes[6].content = "Yo"

(***************************************************************************)
(* The renderer of part_003: A2UIRenderer maps the blocks of the blueprint *)
(* to the components of COMPONENTS.  A block is {type, key}, key being its *)
(* reference into data (value_key, items_key or state_key), NoStr when it  *)
(* has none.  What a block renders to is [kind, type, value, items]; a     *)
(* component that throws makes the whole render throw, since nothing in    *)
(* the tree catches it.                                                    *)
(***************************************************************************)
Block(type, key) == [type |-> type, key |-> key]
Out(kind, type, value, items) ==
  [kind |-> kind, type |-> type, value |-> value, items |-> items]
Thrown == Out("throw", "", Undef, <<>>)

\* the own properties of COMPONENTS (part_003:7-112)
Registered == {"HeroStat", "ActionButton", "Checklist"}
\* names that COMPONENTS[name] finds on Object.prototype, COMPONENTS being an
\* object literal: COMPONENTS["constructor"] is the function Object
Inherited == {"constructor"}

\* HeroStat (part_003:9-17): {value} is rendered as a React child, which a
\* non-empty array of item objects is not
HeroStat(block, data) ==
  LET value == IF Lookup(data, block.key).t # "undef" THEN Lookup(data, block.key)
               ELSE Num(0)
  IN  IF IsArray(value) /\ value.l # <<>> THEN Thrown
      ELSE Out("HeroStat", block.type, value, <<>>)

\* Checklist (part_003:37-111): items.map is called on whatever truthy value
\* data holds at the key
Checklist(block, data) ==
  LET safeKey == IF block.key = NoStr \/ block.key = "" THEN "items" ELSE block.key
      held    == Lookup(data, safeKey)
  IN  IF ~Truthy(held) THEN Out("Checklist", block.type, Undef, <<>>)
      ELSE IF IsArray(held) THEN Out("Checklist", block.type, Undef, held.l)
      ELSE Thrown

\* one iteration of blueprint.map (part_003:118-122).  The function Object,
\* called as a component, returns its props, which is not a React child.
RenderBlock(block, data) ==
  CASE block.type = "HeroStat"     -> HeroStat(block, data)
    [] block.type = "ActionButton" -> Out("ActionButton", block.type, Undef, <<>>)
    [] block.type = "Checklist"    -> Checklist(block, data)
    [] block.type \in Inherited    -> Thrown
    [] OTHER                       -> Out("Unknown Block", block.type, Undef, <<>>)

\* the block types of the model: the four the generator is offered
\* (part_007:57-69), one it is not, and a name found on Object.prototype
BlockKinds ==
  { Block("HeroStat", "count"), Block("ActionButton", NoStr),
    Block("Toggle", "is_active"), Block("Checklist", "items"),
    Block("Checklist", NoStr), Block("Chart", NoStr), Block("constructor", NoStr) }

BlockLists ==
  {<<a>> : a \in BlockKinds}
  \cup {<<a, b>> : a, b \in BlockKinds}
  \cup {<<a, b, c>> : a, b, c \in BlockKinds}

\* the data bags handed to the renderer; the keys that are present hold a
\* value of the type the referring block expects
RenderBags ==
  { <<>>,
    << [k |-> "title", v |-> Str("Beach")] >>,
    << [k |-> "count", v |-> Num(5)], [k |-> "is_active", v |-> Bool(TRUE)],
       [k |-> "items", v |-> List(<<1, 2>>)] >> }

\* A2UIRenderer (part_003:114-125), for a blueprint that is present
RenderBlocks(blueprint, data) ==
  LET out == [i \in DOMAIN blueprint |-> RenderBlock(blueprint[i], data)]
      threw == \E i \in DOMAIN out : out[i] = Thrown
  IN  /\ screen' = [shown |-> TRUE, blueprint |-> blueprint, data |-> data,
                    threw |-> threw, out |-> IF threw THEN <<>> ELSE out]
      /\ UNCHANGED <<nodes, blueprintRef, cleanRef, given, engineVars, steps, toolVars, chatVars,
                     sessionVars>>

NextBlocks == \E blueprint \in BlockLists, data \in RenderBags : RenderBlocks(blueprint, data)

SpecBlocks == Init /\ [][NextBlocks]_vars

\* C18: every block of the blueprint has its output, in blueprint order: a
\* registered type the output of its component, any other type the
\* diagnostic placeholder naming the type; no block aborts the render.
C18_UnknownTagContainment ==
  screen.shown =>
    /\ ~screen.threw
    /\ Len(screen.out) = Len(screen.blueprint)
    /\ \A i \in DOMAIN screen.blueprint :
         LET type == screen.blueprint[i].type
         IN  /\ screen.out[i].type = type
             /\ screen.out[i].kind = IF type \in Registered THEN type ELSE "Unknown Block"

\* the blocks are of the types offered to the generator and none of the
\* keys they refer to is in data
OfferedTypes == {"HeroStat", "ActionButton", "Toggle", "Checklist"}
ReferencedKey(block) ==
  IF block.type = "Checklist" /\ block.key = NoStr THEN "items" ELSE block.key
AllReferencesAbsent ==
  /\ screen.shown
  /\ \A i \in DOMAIN screen.blueprint :
       /\ screen.blueprint[i].type \in OfferedTypes
       /\ ~HasKey(screen.data, ReferencedKey(screen.blueprint[i]))

\* C19: a blueprint of offered blocks whose references are all absent from
\* data renders without throwing, every HeroStat showing 0, every Toggle
\* showing false and every Checklist the empty list.
C19_DefaultSafety ==
  AllReferencesAbsent =>
    /\ ~screen.threw
    /\ \A i \in DOMAIN screen.out :
         LET type == screen.blueprint[i].type
             o == screen.out[i]
         IN  /\ type = "HeroStat" => (o.kind = "HeroStat" /\ o.value = Num(0))
             /\ type = "Toggle" => (o.kind = "Toggle" /\ o.value = Bool(FALSE))
             /\ type = "Checklist" => (o.kind = "Checklist" /\ o.items = <<>>)

(***************************************************************************)
(* The checklist operations under the clock: ADD_CHECKLIST_ITEM gives the  *)
(* new item id: Date.now() (part_001:192), the reading of the millisecond  *)
(* clock when the updater runs.  Items delivered by initial_state have the *)
(* id 0 in the model; the clock starts at 1.                               *)
(***************************************************************************)
ListPayloads(actionType) ==
  CASE actionType = "ADD_CHECKLIST_ITEM" -> {ValueP(NoStr, "Buy milk"), ValueP(NoStr, NoStr)}
    [] actionType = "EDIT_CHECKLIST_ITEM" -> {EditP(NoStr, 0, "Sunscreen")}
    [] OTHER -> {IndexP(NoStr, 0), IndexP(NoStr, 1)}

ListAction == \E a \in ListOps : \E p \in ListPayloads(a) : HandleAppAction(a, p)

NextList == Create \/ ListAction \/ ClockAdvance

SpecList == Init /\ [][NextList]_vars

\* the ids of the items of list l that ADD_CHECKLIST_ITEM appended
AddedAt(l) == {j \in DOMAIN l : heap[l[j]].id # 0}

\* C20: within one list, the items appended by ADD_CHECKLIST_ITEM have
\* pairwise distinct ids, whatever the sequence of add, delete, edit and
\* toggle operations and whatever the clock values they occur at.
C20_UniqueItemIds ==
  HasActiveApp =>
    \A i \in DOMAIN ActiveData :
      IsArray(ActiveData[i].v) =>
        \A a, b \in AddedAt(ActiveData[i].v.l) :
          a # b => heap[ActiveData[i].v.l[a]].id # heap[ActiveData[i].v.l[b]].id

(***************************************************************************)
(* INCREMENT_COUNT on bags whose values are not numbers.  The branch       *)
(* computes Number(newData[key]) + (payload.amount || 1) (part_001:158):   *)
(* Number of a string that is not a numeric literal is NaN, and NaN plus   *)
(* any amount is NaN.                                                      *)
(***************************************************************************)
\* initial_state objects with a string, a numeric string, a boolean or a list
\* where a number is expected
CountStates ==
  { [data |-> << [k |-> "count", v |-> Str("abc")] >>, heap |-> <<>>],
    [data |-> << [k |-> "count", v |-> Str("7")] >>, heap |-> <<>>],
    [data |-> << [k |-> "title", v |-> Str("Beach")],
                 [k |-> "count", v |-> Num(5)] >>, heap |-> <<>>],
    [data |-> << [k |-> "count", v |-> Bool(TRUE)],
                 [k |-> "title", v |-> Str("Beach")] >>, heap |-> <<>>] }

CountPayloads == {KeyP(NoStr), AmountP("count", 3), AmountP("title", 2)}

CreateCount == \E st \in CountStates : CreateApp("Accumulator", st)

CountAction == \E p \in CountPayloads : HandleAppAction("INCREMENT_COUNT", p)

NextCount == CreateCount \/ CountAction

SpecCount == Init /\ [][NextCount]_vars

\* the value the last invocation found at the key it asked for is a string
\* that is not a numeric literal
NonNumericString(v) == v.t = "str" /\ v.s \notin NumericStrings

\* C21: INCREMENT_COUNT on a key whose existing value is a string that does
\* not parse as a number treats that value as 0: the result is a number and
\* equals the amount added.
C21_NonNumericTreatedAsZero ==
  (/\ last.op = "INCREMENT_COUNT"
   /\ HasKey(last.prevData, Requested)
   /\ NonNumericString(Get(last.prevData, Requested))) =>
    Get(ActiveData, Requested) = Num(AmountOr1(last.payload))

\* the alternate type names the normalizer knows
ButtonSynonyms == {"ButtonList", "Buttons"}
TextSynonyms == {"Paragraph", "Span", "Label"}

\* C22: after normalization no node at any depth has a synonym type: a node
\* that was ButtonList or Buttons is ButtonRow, one that was Paragraph, Span
\* or Label is Text, and every other node keeps its type.
C22_SynonymFoldingAtDepth ==
  cleanRef # 0 =>
    /\ Len(nodes) = 2 * Len(given)
    /\ \A i \in DOMAIN given :
         LET was == given[i].type
             is  == nodes[Len(given) + i].type
         IN  /\ is \notin ButtonSynonyms \cup TextSynonyms
             /\ was \in ButtonSynonyms => is = "ButtonRow"
             /\ was \in TextSynonyms => is = "Text"
             /\ was \notin ButtonSynonyms \cup TextSynonyms => is = was

\* a chain of five has been normalized: the root and the node at depth five
\* were folded, the node at depth three kept its type
C22_Witness ==
  /\ cleanRef = 6
  /\ given[4].children = <<5>>
  /\ given[1].type = "Buttons" /\ nodes[6].type = "ButtonRow"
  /\ given[3].type = "Gizmo" /\ nodes[8].type = "Gizmo"
  /\ given[5].type = "Label" /\ nodes[10].type = "Text"

(***************************************************************************)
(* The chat of src/src/App.js (56-199): handleSend asks the LLM, parses    *)
(* the response text with robustJSONParse and applies it; a 429 starts the *)
(* cooldown.  A response text is a sequence of tokens: "{" and "}", "r"    *)
(* (the member "response": "..."), "t" (the member "tool": {...}, taken    *)
(* whole), "n" (the literal null) and "x" (prose, or any other text that   *)
(* is not JSON).                                                           *)
(***************************************************************************)
\* the seconds a 429 sets the cooldown to (App.js:176)
CooldownSeconds == 60
\* handleSend and handleAppAction calls followed in one behaviour
MaxCalls == 3

Failed == [ok |-> FALSE, null |-> FALSE, response |-> FALSE, tool |-> FALSE]
JSONNull == [ok |-> TRUE, null |-> TRUE, response |-> FALSE, tool |-> FALSE]
JSONObject(response, tool) ==
  [ok |-> TRUE, null |-> FALSE, response |-> response, tool |-> tool]

\* JSON.parse(text); Failed stands for the SyntaxError it throws
JSONParse(text) ==
  CASE text = <<"n">>                -> JSONNull
    [] text = <<"{", "}">>           -> JSONObject(FALSE, FALSE)
    [] text = <<"{", "r", "}">>      -> JSONObject(TRUE, FALSE)
    [] text = <<"{", "t", "}">>      -> JSONObject(FALSE, TRUE)
    [] text = <<"{", "r", "t", "}">> -> JSONObject(TRUE, TRUE)
    [] OTHER                         -> Failed

Positions(text, token) == {i \in DOMAIN text : text[i] = token}
SetMax(S) == CHOOSE x \in S : \A y \in S : x >= y
\* text.match(/\{[\s\S]*\}/): there is a "{" with a "}" after it
HasMatch(text) ==
  /\ Positions(text, "{") # {}
  /\ \E j \in Positions(text, "}") : j > SetMin(Positions(text, "{"))
\* jsonMatch[0]: from the first "{" to the last "}"
JsonMatch(text) == SubSeq(text, SetMin(Positions(text, "{")), SetMax(Positions(text, "}")))

\* a parser that answers a text it cannot parse with an empty object
RobustJSONParseNeverNull(text) ==
  IF JSONParse(text).ok THEN JSONParse(text)
  ELSE IF HasMatch(text) /\ JSONParse(JsonMatch(text)).ok THEN JSONParse(JsonMatch(text))
  ELSE JSONObject(FALSE, FALSE)

\* robustJSONParse (App.js:88-106)
RobustJSONParse(text) ==
  IF JSONParse(text).ok THEN JSONParse(text)
  ELSE IF HasMatch(text) /\ JSONParse(JsonMatch(text)).ok THEN JSONParse(JsonMatch(text))
  ELSE JSONNull

Msg(role, text) == [role |-> role, text |-> text]
SyntaxErrorMessage ==
  Msg("model", "I tried to build that, but I made a syntax error. Please ask again.")

ChatApp(id, title, blueprint) == [id |-> id, title |-> title, blueprint |-> blueprint]

\* handleSend up to the await (App.js:108-146), for a text that is not blank
\* and with the API key set
HandleSend(isSystemAction) ==
  IF rateLimitTimer > 0
  THEN UNCHANGED <<messages, loading, awaiting, requests>>
  ELSE /\ requests' = requests + 1
       /\ messages' = IF isSystemAction THEN messages
                      ELSE Append(messages, Msg("user", "textToSend"))
       /\ loading' = TRUE
       /\ awaiting' = Append(awaiting, [appId |-> activeAppId, hasApp |-> HasActiveApp,
                                        system |-> isSystemAction])

\* the send button is clicked; it is disabled during the cooldown and while
\* loading (App.js:244-247)
ClickSend ==
  /\ calls < MaxCalls
  /\ Len(awaiting) < MaxPending
  /\ ~(rateLimitTimer > 0 \/ loading)
  /\ HandleSend(FALSE)
  /\ calls' = calls + 1
  /\ UNCHANGED <<rateLimitTimer, reply, engineVars, steps, toolVars, sessionVars,
                 rendererVars>>

\* handleAppAction (App.js:81-85): a button of the active app's blueprint is
\* pressed
HandleAppActionLLM ==
  /\ calls < MaxCalls
  /\ Len(awaiting) < MaxPending
  /\ HasActiveApp
  /\ IF rateLimitTimer > 0 THEN UNCHANGED <<messages, loading, awaiting, requests>>
     ELSE HandleSend(TRUE)
  /\ calls' = calls + 1
  /\ UNCHANGED <<rateLimitTimer, reply, engineVars, steps, toolVars, sessionVars,
                 rendererVars>>

\* handleSend from the response on (App.js:147-173, 181)
HandleSendResume(i, text) ==
  /\ i \in DOMAIN awaiting
  /\ LET call == awaiting[i]
         data == RobustJSONParse(text)
     IN  /\ (data.tool /\ ~call.hasApp) => Len(apps) < MaxApps
         /\ messages' =
              IF data.null THEN Append(messages, SyntaxErrorMessage)
              ELSE IF data.response /\ ~call.system
                   THEN Append(messages, Msg("model", "data.response"))
                   ELSE messages
         /\ IF data.tool /\ call.hasApp
            THEN /\ apps' = [j \in DOMAIN apps |->
                               IF apps[j].id = call.appId
                               THEN ChatApp(apps[j].id, "data.tool.title", "data.tool")
                               ELSE apps[j]]
                 /\ UNCHANGED activeAppId
            ELSE IF data.tool
            THEN /\ apps' = Append(apps, ChatApp(now, "data.tool.title", "data.tool"))
                 /\ activeAppId' = now
            ELSE UNCHANGED <<apps, activeAppId>>
  /\ loading' = FALSE
  /\ awaiting' = Without(awaiting, i)
  /\ reply' = [n |-> reply.n + 1, text |-> text,
               late |-> awaiting[i].hasApp /\ ~(\E j \in DOMAIN apps : apps[j].id = awaiting[i].appId)]
  /\ UNCHANGED <<rateLimitTimer, calls, requests, heap, now, steps, ticks, last, toolVars,
                 sessionVars, rendererVars>>

\* handleSend, the request rejected (App.js:174-181)
HandleSendCatch(i, is429) ==
  /\ i \in DOMAIN awaiting
  /\ IF is429
     THEN /\ rateLimitTimer' = CooldownSeconds
          /\ UNCHANGED messages
     ELSE /\ messages' = Append(messages, Msg("model", "Error: e.message"))
          /\ UNCHANGED rateLimitTimer
  /\ loading' = FALSE
  /\ awaiting' = Without(awaiting, i)
  /\ UNCHANGED <<calls, requests, reply, engineVars, steps, toolVars, sessionVars,
                 rendererVars>>

\* a countdown that fires once more at 0
CooldownTickPastZero ==
  /\ rateLimitTimer >= 0
  /\ rateLimitTimer' = rateLimitTimer - 1
  /\ UNCHANGED <<messages, loading, awaiting, calls, requests, reply, engineVars, steps,
                 toolVars, sessionVars, rendererVars>>

\* the countdown (App.js:72-77): while the counter is above 0 an interval
\* decrements it every second
CooldownTick ==
  /\ rateLimitTimer > 0
  /\ rateLimitTimer' = rateLimitTimer - 1
  /\ UNCHANGED <<messages, loading, awaiting, calls, requests, reply, engineVars, steps,
                 toolVars, sessionVars, rendererVars>>

\* the response texts of the model: objects and null as the schema asks for
\* them, objects with prose around them, and texts that are not JSON: prose,
\* a lone brace, braces in the wrong order, and objects broken inside or
\* followed by a stray brace
ResponseTexts ==
  { <<"{", "}">>, <<"{", "r", "}">>, <<"{", "t", "}">>, <<"{", "r", "t", "}">>, <<"n">>,
    <<"x", "{", "r", "}", "x">>, <<"x", "{", "t", "}", "x">>,
    <<"x">>, <<"{", "r">>, <<"}", "x", "{">>, <<"{", "x", "}">>,
    <<"{", "r", "}", "x", "}">>, <<"x", "n">> }

Resume == \E i \in 1..MaxPending : \E text \in ResponseTexts : HandleSendResume(i, text)

Catch == \E i \in 1..MaxPending : \E is429 \in BOOLEAN : HandleSendCatch(i, is429)

NextChat == ClickSend \/ HandleAppActionLLM \/ Resume \/ Catch \/ CooldownTick

SpecChat == Init /\ [][NextChat]_vars

\* the text cannot be parsed as JSON, as it is or cut from its first "{" to
\* its last "}"
Unparsable(text) ==
  /\ ~JSONParse(text).ok
  /\ ~(HasMatch(text) /\ JSONParse(JsonMatch(text)).ok)

\* C23: when the response text cannot be parsed as JSON even after the span
\* from the first "{" to the last "}" is extracted, handleSend leaves apps and
\* activeAppId unchanged, appends the explanatory model message to the chat
\* and runs to its end, where loading is false.
C23_MalformedResponse ==
  [][(reply'.n # reply.n /\ Unparsable(reply'.text)) =>
       /\ apps' = apps
       /\ activeAppId' = activeAppId
       /\ messages' = Append(messages, SyntaxErrorMessage)
       /\ loading' = FALSE]_vars

\* an app exists and the second request was answered with an object broken
\* after its closing brace: the explanation is the last message
C23_Witness ==
  /\ reply.text = <<"{", "r", "}", "x", "}">>
  /\ Len(apps) = 1
  /\ apps[1].blueprint = "data.tool"
  /\ messages # <<>>
  /\ messages[Len(messages)] = SyntaxErrorMessage
  /\ ~loading
  /\ calls = 2

(***************************************************************************)
(* The timer flags under every local action and the heartbeat.  The        *)
(* payload keys are whatever the blueprint's buttons carry, the names of   *)
(* the flags included: INCREMENT_COUNT, RESET_TIMER and ADD_CHECKLIST_ITEM *)
(* write to the key they are given when it is present (part_001:139).      *)
(***************************************************************************)
\* heartbeat firings followed after one user action in this specification
MaxFlagTicks == 2

\* initial_state objects in which is_running and finished are not both true
FlagStates ==
  { [data |-> <<>>, heap |-> <<>>],
    [data |-> << [k |-> "time_remaining", v |-> Num(1)],
                 [k |-> "is_running", v |-> Bool(TRUE)],
                 [k |-> "finished", v |-> Bool(FALSE)] >>, heap |-> <<>>],
    [data |-> << [k |-> "is_running", v |-> Bool(FALSE)],
                 [k |-> "finished", v |-> Bool(TRUE)],
                 [k |-> "time_remaining", v |-> Num(0)] >>, heap |-> <<>>],
    [data |-> << [k |-> "finished", v |-> Bool(TRUE)] >>, heap |-> <<>>],
    [data |-> << [k |-> "is_running", v |-> Bool(TRUE)] >>, heap |-> <<>>] }

FlagPayloads(actionType) ==
  CASE actionType = "INCREMENT_COUNT" -> {KeyP(NoStr), KeyP("is_running"), KeyP("finished")}
    [] actionType = "RESET_TIMER" ->
         {InitP(NoStr, 1), InitP("is_running", 1), InitP("finished", 1)}
    [] actionType = "ADD_CHECKLIST_ITEM" ->
         {ValueP(NoStr, "Buy milk"), ValueP("is_running", "Buy milk")}
    [] actionType = "EDIT_CHECKLIST_ITEM" -> {EditP("is_running", 0, "Sunscreen")}
    [] actionType \in {"TOGGLE_CHECKLIST_ITEM", "DELETE_CHECKLIST_ITEM"} ->
         {IndexP("is_running", 0)}
    [] OTHER -> {EmptyPayload}

CreateFlags == \E st \in FlagStates : CreateApp("Regulator", st)

FlagAction == \E a \in Catalogue : \E p \in FlagPayloads(a) : HandleAppAction(a, p)

FlagTick == ticks < MaxFlagTicks /\ Tick

NextFlags == CreateFlags \/ FlagAction \/ FlagTick

SpecFlags == Init /\ [][NextFlags]_vars

\* C24: the timer flags are mutually exclusive: from a bag in which
\* is_running and finished are not both true, no sequence of timer actions,
\* INCREMENT_COUNT, checklist operations and heartbeat firings reaches a
\* state with is_running = true and finished = true.
C24_FlagsExclusive ==
  \A i \in DOMAIN apps :
    ~(/\ HasKey(apps[i].data, "is_running")
      /\ Get(apps[i].data, "is_running") = Bool(TRUE)
      /\ HasKey(apps[i].data, "finished")
      /\ Get(apps[i].data, "finished") = Bool(TRUE))

\* a timer that had finished was started again and the heartbeat has fired
\* since
C24_Witness ==
  /\ last.op = "START_TIMER"
  /\ HasKey(last.prevData, "finished")
  /\ Get(last.prevData, "finished") = Bool(TRUE)
  /\ last.before.op = "INCREMENT_COUNT"
  /\ ticks = 1
  /\ Flag("is_running")
  /\ NotFlag("finished")

(***************************************************************************)
(* Which field is the time field.  RESET_TIMER writes to the key that      *)
(* findBestKey resolves: the requested key when the bag has it, else the   *)
(* first numeric key (part_001:139-150, 172-173).  The heartbeat           *)
(* decrements the first numeric key in Object.keys order, whatever was     *)
(* requested (part_001:101).                                               *)
(***************************************************************************)
\* Regulator bags with one numeric field, with two in either order, and none
FieldStates ==
  { [data |-> <<>>, heap |-> <<>>],
    [data |-> << [k |-> "title", v |-> Str("Beach")],
                 [k |-> "seconds", v |-> Num(2)] >>, heap |-> <<>>],
    [data |-> << [k |-> "time_remaining", v |-> Num(3)],
                 [k |-> "laps", v |-> Num(2)] >>, heap |-> <<>>],
    [data |-> << [k |-> "laps", v |-> Num(2)],
                 [k |-> "time_remaining", v |-> Num(3)] >>, heap |-> <<>>] }

FieldPayloads(actionType) ==
  CASE actionType = "RESET_TIMER" -> {InitP(NoStr, 2), InitP("seconds", 2), InitP("laps", 1)}
    [] OTHER -> {EmptyPayload}

CreateField == \E st \in FieldStates : CreateApp("Regulator", st)

FieldAction ==
  \E a \in {"START_TIMER", "RESET_TIMER"} : \E p \in FieldPayloads(a) : HandleAppAction(a, p)

NextField == CreateField \/ FieldAction \/ Tick

SpecField == Init /\ [][NextField]_vars

\* RESET_TIMER and then START_TIMER were the last two user actions, on a
\* Regulator app
ResetThenStarted ==
  /\ HasActiveApp
  /\ apps[ActiveApp].archetype = "Regulator"
  /\ last.op = "START_TIMER"
  /\ last.before.op = "RESET_TIMER"

\* n less d, not below zero
Monus(n, d) == IF n > d THEN n - d ELSE 0

\* C25: after RESET_TIMER with key k (default time_remaining) and START_TIMER
\* the heartbeat decrements exactly the field that RESET_TIMER set, by one per
\* firing down to zero, and no other numeric field of the bag.
C25_TickAgreesWithReset ==
  ResetThenStarted =>
    /\ HasKey(ActiveData, TimeField)
    /\ Get(ActiveData, TimeField) = Num(Monus(Get(last.prevData, TimeField).n, ticks))
    /\ \A i \in DOMAIN last.prevData :
         (IsNumber(last.prevData[i].v) /\ last.prevData[i].k # TimeField) =>
           ActiveData[i] = last.prevData[i]

\* what the Checklist block that dispatched the last action renders now: the
\* block passes its own safeKey as the payload's key (part_003:62, 70)
DispatchingChecklist == Checklist(Block("Checklist", Requested), ActiveData)

\* C26: after ADD_CHECKLIST_ITEM dispatched by a Checklist block with
\* items_key k (default 'items'), the list that block renders, data[k], has
\* the newly added item as its last element, for every data bag.
C26_RendererEngineListKey ==
  last.op = "ADD_CHECKLIST_ITEM" =>
    /\ DispatchingChecklist.kind = "Checklist"
    /\ DispatchingChecklist.items # <<>>
    /\ DispatchingChecklist.items[Len(DispatchingChecklist.items)] = Len(heap)
    /\ heap[Len(heap)].label = ValueOrNewItem(last.payload)

\* the field the heartbeat would decrement holds a non-negative number
TimeNotNegative(d) ==
  TimeKey(d) # NoStr => (Get(d, TimeKey(d)).t = "num" /\ Get(d, TimeKey(d)).n >= 0)

\* the app is a Regulator whose is_running is truthy
IsRunningRegulator(app) ==
  /\ app.archetype = "Regulator"
  /\ HasKey(app.data, "is_running")
  /\ Truthy(Get(app.data, "is_running"))

\* the step is a heartbeat firing
TickStep == ticks' = ticks + 1 /\ steps' = steps

\* C27: from a non-negative integer time value, under any interleaving of
\* heartbeat firings with START_TIMER, STOP_TIMER and RESET_TIMER, the field
\* the heartbeat decrements is never below zero, and a firing changes an app
\* only while it is a running Regulator.
C27_TickNeverBelowZero ==
  /\ [](\A i \in DOMAIN apps : TimeNotNegative(apps[i].data))
  /\ [][TickStep =>
          \A i \in DOMAIN apps :
            apps'[i] # apps[i] => IsRunningRegulator(apps[i])]_vars

\* a started timer has run down to zero and finished, and the heartbeat has
\* fired twice more
C27_Witness ==
  /\ HasActiveApp
  /\ last.op = "START_TIMER"
  /\ ticks = 5
  /\ Flag("finished")
  /\ NotFlag("is_running")
  /\ HasKey(last.prevData, "time_remaining")
  /\ Get(last.prevData, "time_remaining") = Num(2)
  /\ Get(ActiveData, "time_remaining") = Num(0)

(***************************************************************************)
(* Responses that arrive late (part_001:227-281): the apps list under      *)
(* requests in flight, selection and deletion, every response observed.    *)
(***************************************************************************)
\* the app the call had captured is no longer in the list
Gone(target) == target # 0 /\ ~(\E j \in DOMAIN apps : apps[j].id = target)

\* responses followed in one behaviour
MaxReplies == 3

ReceiveAppObserved(i, response) ==
  /\ reply.n < MaxReplies
  /\ ApplyResponse(i, response)
  /\ reply' = [n |-> reply.n + 1, text |-> <<response.blueprint>>, late |-> Gone(pending[i])]
  /\ UNCHANGED <<heap, now, steps, ticks, last, fault, toolVars, messages, loading,
                 rateLimitTimer, awaiting, calls, requests, rendererVars>>

ReceiveObserved ==
  \E i \in 1..MaxPending : \E r \in Responses : ReceiveAppObserved(i, r)

NextLate == SendRequest \/ ReceiveObserved \/ Select \/ Delete \/ ClockAdvance

SpecLate == Init /\ [][NextLate]_vars

\* C28: when the app that was active as a request was sent has been deleted
\* before the response arrives, the response creates, re-creates and modifies
\* no app and leaves activeAppId as it is (null after the deletion); and in
\* every state activeAppId is null or the id of an app of the list.
C28_LateResponse ==
  /\ [](activeAppId = 0 \/ \E j \in DOMAIN apps : apps[j].id = activeAppId)
  /\ [][\A i \in DOMAIN pending :
          (reply'.n # reply.n /\ pending' = Without(pending, i) /\ Gone(pending[i])) =>
            (apps' = apps /\ activeAppId' = activeAppId)]_vars

\* the first response created an app, a request was sent from it, the app
\* was deleted, and the second response has arrived since: there is no app
\* and none is active
C28_Witness ==
  /\ reply.n = 2
  /\ reply.late
  /\ reply.text = <<"bp2">>
  /\ apps = <<>>
  /\ activeAppId = 0
  /\ pending = <<>>

\* the app is what it was but for its data
SameButData(a, b) == [a EXCEPT !.data = b.data] = b

\* C29: a local action changes the data of the app whose id is activeAppId
\* and nothing else: every other app (id, title, archetype, blueprint, data),
\* the order of the list and activeAppId are as they were.
C29_OnlyActiveApp ==
  [][steps' # steps =>
       /\ Len(apps') = Len(apps)
       /\ activeAppId' = activeAppId
       /\ \A i \in DOMAIN apps :
            IF apps[i].id = activeAppId
            THEN SameButData(apps'[i], apps[i])
            ELSE apps'[i] = apps[i]]_vars

\* of two apps the first is active and was incremented; the second has the
\* data its response gave it
C29_Witness ==
  /\ Len(apps) = 2
  /\ apps[1].id # apps[2].id
  /\ activeAppId = apps[1].id
  /\ last.op = "INCREMENT_COUNT"
  /\ apps[1].data = << [k |-> "count", v |-> Num(6)] >>
  /\ apps[2].data = << [k |-> "time_remaining", v |-> Num(1)] >>

(***************************************************************************)
(* The cooldown with its interval kept running: setInterval fires every    *)
(* second for as long as rateLimitTimer is above 0 (App.js:72-77).         *)
(***************************************************************************)
SpecChatFair == Init /\ [][NextChat]_vars /\ WF_vars(CooldownTick)

\* the step is a call of handleSend or handleAppAction
CallStep == calls' # calls

\* C30: a 429 sets the cooldown counter to a positive value; the counter then
\* goes down by one per firing, is never negative and reaches 0; and a
\* handleSend or button-triggered handleAppAction called while it is above 0
\* issues no request and changes none of messages, apps and loading.
C30_RateLimitCooldown ==
  /\ CooldownSeconds > 0
  /\ [](rateLimitTimer >= 0)
  /\ [][rateLimitTimer' # rateLimitTimer =>
          \/ rateLimitTimer' = CooldownSeconds /\ Len(awaiting') < Len(awaiting)
          \/ rateLimitTimer > 0 /\ rateLimitTimer' = rateLimitTimer - 1]_vars
  /\ [][(CallStep /\ rateLimitTimer > 0) =>
          UNCHANGED <<requests, awaiting, messages, apps, activeAppId, loading,
                      rateLimitTimer>>]_vars
  /\ (rateLimitTimer > 0) ~> (rateLimitTimer = 0)

\* a button press answered with a 429 started the cooldown, a further press
\* was made during it and issued no request, and the counter has gone down
C30_Witness ==
  /\ calls = 3
  /\ requests = 2
  /\ rateLimitTimer = CooldownSeconds - 2
  /\ Len(apps) = 1
  /\ awaiting = <<>>
  /\ ~loading

====
